---- MODULE Spec2Model ----
(***************************************************************************)
(* The URL shortener of shorturl-service/main.py: one SQLite table `urls`  *)
(* and the request handlers that read and write it.  Every handler runs in *)
(* a worker thread on a connection of its own (get_db: the default journal *)
(* mode and the default busy timeout of 5 s), so the handlers of different *)
(* requests interleave between the calls on their connections.  One action *)
(* of the model is one such call together with the Python code up to the   *)
(* next one (or up to the response).                                       *)
(*                                                                         *)
(* Locks.  cursor.execute of a SELECT that finds a row leaves the          *)
(* statement open, and with it a read lock, until the fetch that exhausts  *)
(* it (or conn.close()); a SELECT that finds no row is finished at once.   *)
(* A statement that writes opens a transaction on its connection and takes *)
(* the write lock; its change is the connection's own until conn.commit(), *)
(* publishes it and releases the lock.  The commit needs every read lock   *)
(* of the other connections gone: called while one is held it takes the    *)
(* pending lock, which admits no new read lock, and waits, the other       *)
(* handlers running on meanwhile.  A call that meets a lock waits for the  *)
(* busy timeout and, the lock still held, raises sqlite3.OperationalError  *)
(* (database is locked); that step of the model is the end of the wait, a  *)
(* wait that the lock does not outlast is a step taken once the lock is    *)
(* gone.  No handler catches an exception or closes its                    *)
(* connection on the way out: the request is answered 500 and the          *)
(* connection lives on until the garbage collector finalises it.  When it  *)
(* had a transaction open (an INSERT refused by the UNIQUE constraint, a   *)
(* commit that timed out) it keeps that transaction's lock until then.     *)
(***************************************************************************)
EXTENDS Integers, FiniteSets, Sequences, TLC

\* ------------------------------------------------------------------ bounds
NumProcs == 3       \* worker threads handling requests at the same time
NumCodes == 2       \* size of the code space (62^6 in the program)
NumUrls == 3        \* distinct URL strings submitted
MaxRequests == 3    \* requests received
MaxTime == 1        \* seconds the clock advances

Procs == 1..NumProcs
Codes == 1..NumCodes
Urls == 1..NumUrls

\* Python's None for a handler's local that holds no value.
None == 0

VARIABLES
    urls,       \* the table: a set of rows [id, short_id, full_url, created_at, clicks]
    seq,        \* sqlite_sequence of the table: the largest id ever given
    pc,         \* per worker: the call its handler makes next
    url_data,   \* per worker: shorten_url's url_data.url
    short_id,   \* per worker: the handler's short_id
    result,     \* per worker: redirect_to_url's result["full_url"]
    requests,   \* the number of requests the server has received
    now,        \* the wall clock, in seconds
    leaked,     \* the lock an unclosed connection holds: "no", "reserved", "pending"
    txn,        \* the open write transaction: <<>> or <<the table as it will be>>
    redirected, \* history, per code: the redirect responses sent for it
    aborted,    \* history: a redirect request ended with a 500 after its commit
    response    \* the response the step just taken sent (NoResponse: none)

vars == <<urls, seq, pc, url_data, short_id, result, requests, now, leaked, txn,
          redirected, aborted, response>>

\* ------------------------------------------------------------------ store

\* A row whose clicks column defaults to 1.
C7_NewRowOneClick(id, sid, url, created_at) ==
    [id |-> id, short_id |-> sid, full_url |-> url, created_at |-> created_at, clicks |-> 1]

\* A row as INSERT INTO urls (short_id, full_url) makes it: the id from the
\* AUTOINCREMENT sequence, created_at and clicks from the column defaults.
NewRow(id, sid, url, created_at) ==
    [id |-> id, short_id |-> sid, full_url |-> url, created_at |-> created_at, clicks |-> 0]

\* The table without its UNIQUE constraint.
C1_NoUniqueConstraint(tbl, sid, url) == FALSE

\* The table with full_url declared UNIQUE as well.
C8_UniqueFullUrl(tbl, sid, url) ==
    \E r \in tbl : r.short_id = sid \/ r.full_url = url

\* short_id TEXT UNIQUE NOT NULL: the only constraint an INSERT can violate.
ConstraintViolation(tbl, sid, url) == \E r \in tbl : r.short_id = sid

\* SELECT ... FROM urls WHERE short_id = ?
SelectByShortId(tbl, sid) == {r \in tbl : r.short_id = sid}

\* The reuse check finding nothing.
C2_NoReuse(tbl, url) == {}

\* SELECT short_id FROM urls WHERE full_url = ?
SelectByFullUrl(tbl, url) == {r \in tbl : r.full_url = url}

\* cursor.fetchone() on a non-empty result: the first row of the table scan,
\* which visits the rows in rowid order.
fetchone(rows) == CHOOSE r \in rows : \A q \in rows : r.id <= q.id

\* The UPDATE without its WHERE clause.
C4_UpdateEveryRow(tbl, sid) == {[r EXCEPT !.clicks = r.clicks + 1] : r \in tbl}

\* The UPDATE writing a count instead of adding to the stored one.
C5_SetClicksToOne(tbl, sid) ==
    {IF r.short_id = sid THEN [r EXCEPT !.clicks = 1] ELSE r : r \in tbl}

\* UPDATE urls SET clicks = clicks + 1 WHERE short_id = ?
UpdateClicks(tbl, sid) ==
    {IF r.short_id = sid THEN [r EXCEPT !.clicks = r.clicks + 1] ELSE r : r \in tbl}

\* The DELETE without its WHERE clause.
C6_DeleteEveryRow(tbl, sid) == {}

\* DELETE FROM urls WHERE short_id = ?
DeleteRows(tbl, sid) == {r \in tbl : r.short_id # sid}

\* SELECT * FROM urls ORDER BY created_at DESC, as a list: rows of equal
\* created_at come in the order of the scan (rowid).
RECURSIVE OrderByCreatedAtDesc(_)
OrderByCreatedAtDesc(rows) ==
    IF rows = {} THEN <<>>
    ELSE LET first == CHOOSE r \in rows : \A q \in rows :
                          \/ r.created_at > q.created_at
                          \/ (r.created_at = q.created_at /\ r.id <= q.id)
         IN <<first>> \o OrderByCreatedAtDesc(rows \ {first})

\* ------------------------------------------------------------------ responses

\* An HTTP response: the handler, the status, and the fields of the body
\* (short_id, full_url / redirect target, message, rows of a listing).
Response(op, status, sid, url, message, body) ==
    [op |-> op, status |-> status, short_id |-> sid, full_url |-> url,
     message |-> message, body |-> body]

NoResponse == Response("none", 0, None, None, "", <<>>)

\* raise HTTPException(status_code=404, detail="Short URL not found")
NotFound(op, sid) == Response(op, 404, sid, None, "Short URL not found", <<>>)

\* An exception no handler catches: the framework answers 500.
ServerError(op, sid, url) == Response(op, 500, sid, url, "Internal Server Error", <<>>)

\* ------------------------------------------------------------------ state

\* CURRENT_TIMESTAMP, the default of created_at: the wall clock, to the
\* second, when the INSERT executes.
CURRENT_TIMESTAMP == now

\* No connection has a write transaction open.
NoTxn == <<>>

\* The handler stands between cursor.execute of a SELECT that found a row
\* and the fetch that exhausts it: its connection holds a read lock.
Fetching == {"s_found", "s_probed", "s_counted", "a_fetch", "g_fetch",
             "d_fetch", "d_counted", "r_fetch", "r_fetched"}

\* A connection other than worker p's holds a read lock: a commit of p
\* cannot have the database to itself.
ReadLocked(p) == \E q \in Procs \ {p} : pc[q] \in Fetching

\* SQLITE_BUSY for a statement that writes: another connection holds the
\* write lock, for a transaction between its statement and its commit or as
\* an unclosed connection.
Locked == leaked # "no" \/ txn # NoTxn

\* The handler stands inside conn.commit(), which waits for the read locks
\* of the other connections: its connection holds the pending lock.
Waiting == {"s_committing", "d_committing", "r_committing"}

\* SQLITE_BUSY for a SELECT: the pending lock, which admits no new read
\* lock, is held by a commit that is waiting or by an unclosed connection
\* whose commit timed out.
ReadBlocked == leaked = "pending" \/ \E q \in Procs : pc[q] \in Waiting

Init ==
    /\ urls = {}
    /\ seq = 0
    /\ pc = [p \in Procs |-> "idle"]
    /\ url_data = [p \in Procs |-> None]
    /\ short_id = [p \in Procs |-> None]
    /\ result = [p \in Procs |-> None]
    /\ requests = 0
    /\ now = 0
    /\ leaked = "no"
    /\ txn = NoTxn
    /\ redirected = [c \in Codes |-> 0]
    /\ aborted = FALSE
    /\ response = NoResponse

\* The handler of worker p returns or is left by an exception: its locals
\* are gone.
Return(p, r) ==
    /\ pc' = [pc EXCEPT ![p] = "idle"]
    /\ url_data' = [url_data EXCEPT ![p] = None]
    /\ short_id' = [short_id EXCEPT ![p] = None]
    /\ result' = [result EXCEPT ![p] = None]
    /\ response' = r

\* The handler of worker p goes on to its next call.
Goto(p, label) ==
    /\ pc' = [pc EXCEPT ![p] = label]
    /\ response' = NoResponse

\* A request arrives at the server, which hands it to an idle worker.
Receive(p) ==
    /\ pc[p] = "idle"
    /\ requests < MaxRequests
    /\ requests' = requests + 1

\* A second passes, whatever the requests do.
tick ==
    /\ now < MaxTime
    /\ now' = now + 1
    /\ response' = NoResponse
    /\ UNCHANGED <<urls, seq, pc, url_data, short_id, result, requests, leaked, txn,
                   redirected, aborted>>

\* The garbage collector finalises the unclosed connection that holds a
\* lock: its transaction is rolled back and the lock released.
gc_collect ==
    /\ leaked # "no"
    /\ leaked' = "no"
    /\ response' = NoResponse
    /\ UNCHANGED <<urls, seq, pc, url_data, short_id, result, requests, now, txn,
                   redirected, aborted>>

\* conn.commit() of worker p's transaction goes through: the change is in
\* the table and the locks of the connection are free.
Publish(p, label) ==
    /\ urls' = txn[1]
    /\ txn' = NoTxn
    /\ Goto(p, label)
    /\ UNCHANGED <<url_data, short_id, result, leaked>>

\* conn.commit() of worker p's transaction is called.  With no read lock
\* of another connection it goes through at once.  Otherwise the
\* connection takes the pending lock and the call waits (the busy handler
\* sleeps and tries again) while the other handlers run on.
Commit(p, wait, label) ==
    IF ReadLocked(p)
    THEN /\ Goto(p, wait)
         /\ UNCHANGED <<urls, url_data, short_id, result, leaked, txn>>
    ELSE Publish(p, label)

\* The wait of conn.commit() ends.  With the read locks of the other
\* connections gone the commit goes through.  A read lock that outlasts
\* the busy timeout makes it raise OperationalError, which nothing catches:
\* the request ends with a 500, nothing is committed, and the unclosed
\* connection keeps its transaction and the pending lock.
Committed(p, op, label) ==
    IF ReadLocked(p)
    THEN /\ Return(p, ServerError(op, short_id[p], None))
         /\ leaked' = "pending"
         /\ txn' = NoTxn
         /\ UNCHANGED urls
    ELSE Publish(p, label)

\* ------------------------------------------------------------------ POST /shorten

\* shorten_url, the reuse check: cursor.execute(SELECT short_id FROM urls
\* WHERE full_url = ?).  With no row found the statement is finished,
\* fetchone() is None and the handler goes on to the generation loop.
shorten_url_select(p, u) ==
    /\ Receive(p)
    /\ IF ReadBlocked
       THEN Return(p, ServerError("shorten", None, u))
       ELSE /\ Goto(p, IF SelectByFullUrl(urls, u) # {} THEN "s_found" ELSE "s_generate")
            /\ url_data' = [url_data EXCEPT ![p] = u]
            /\ UNCHANGED <<short_id, result>>
    /\ UNCHANGED <<urls, seq, now, leaked, txn, redirected, aborted>>

\* existing = cursor.fetchone(), conn.close(), and the response that reuses
\* the short_id of the row found.
shorten_url_found(p) ==
    /\ pc[p] = "s_found"
    /\ Return(p, Response("shorten", 200,
                          fetchone(SelectByFullUrl(urls, url_data[p])).short_id,
                          url_data[p], "URL already exists", <<>>))
    /\ UNCHANGED <<urls, seq, requests, now, leaked, txn, redirected, aborted>>

\* A generator that returns the same string at every call.
C9_FixedDraw == {1}

\* generate_short_id(): the strings it may return, each character drawn by
\* random.choice.
generate_short_id == Codes

\* One round of the while True loop: draw a short_id and probe the table
\* for it, cursor.execute(SELECT id FROM urls WHERE short_id = ?).  With no
\* row found the statement is finished, fetchone() is None and the loop is
\* left.
shorten_url_generate(p, c) ==
    /\ pc[p] = "s_generate"
    /\ c \in generate_short_id
    /\ IF ReadBlocked
       THEN Return(p, ServerError("shorten", c, url_data[p]))
       ELSE /\ Goto(p, IF SelectByShortId(urls, c) = {} THEN "s_insert" ELSE "s_probed")
            /\ short_id' = [short_id EXCEPT ![p] = c]
            /\ UNCHANGED <<url_data, result>>
    /\ UNCHANGED <<urls, seq, requests, now, leaked, txn, redirected, aborted>>

\* cursor.fetchone() of a probe that found a row: the loop goes round.
shorten_url_probed(p) ==
    /\ pc[p] = "s_probed"
    /\ Goto(p, "s_generate")
    /\ UNCHANGED <<urls, seq, url_data, short_id, result, requests, now, leaked, txn,
                   redirected, aborted>>

\* cursor.execute(INSERT INTO urls (short_id, full_url) VALUES (?, ?)).
\* While another connection holds the write lock the INSERT raises
\* sqlite3.OperationalError (database is locked).  A violated constraint
\* raises sqlite3.IntegrityError, inside the transaction the INSERT opened.
\* Nothing catches either and nothing closes the connection: the request
\* ends with a 500, the table is as it was, and after the IntegrityError
\* the connection keeps its transaction and with it the write lock.
\* Otherwise the row, with the id and the timestamp of this moment, is in
\* the connection's transaction.
shorten_url_insert(p) ==
    /\ pc[p] = "s_insert"
    /\ IF Locked
       THEN /\ Return(p, ServerError("shorten", short_id[p], url_data[p]))
            /\ UNCHANGED <<leaked, txn>>
       ELSE IF ConstraintViolation(urls, short_id[p], url_data[p])
       THEN /\ Return(p, ServerError("shorten", short_id[p], url_data[p]))
            /\ leaked' = "reserved"
            /\ UNCHANGED txn
       ELSE /\ txn' = <<urls \cup
                   {NewRow(seq + 1, short_id[p], url_data[p], CURRENT_TIMESTAMP)}>>
            /\ Goto(p, "s_commit")
            /\ UNCHANGED <<url_data, short_id, result, leaked>>
    /\ UNCHANGED <<urls, seq, requests, now, redirected, aborted>>

\* conn.commit() of the INSERT is called: going through, the row is in the
\* table and its id is the sequence's.
shorten_url_commit(p) ==
    /\ pc[p] = "s_commit"
    /\ Commit(p, "s_committing", "s_count")
    /\ seq' = IF ReadLocked(p) THEN seq ELSE seq + 1
    /\ UNCHANGED <<requests, now, redirected, aborted>>

\* conn.commit() of the INSERT returns from its wait, or raises.
shorten_url_committed(p) ==
    /\ pc[p] = "s_committing"
    /\ Committed(p, "shorten", "s_count")
    /\ seq' = IF ReadLocked(p) THEN seq ELSE seq + 1
    /\ UNCHANGED <<requests, now, redirected, aborted>>

\* cursor.execute(SELECT COUNT(*) as count FROM urls): one row, always.
shorten_url_count(p) ==
    /\ pc[p] = "s_count"
    /\ IF ReadBlocked
       THEN Return(p, ServerError("shorten", short_id[p], url_data[p]))
       ELSE /\ Goto(p, "s_counted")
            /\ UNCHANGED <<url_data, short_id, result>>
    /\ UNCHANGED <<urls, seq, requests, now, leaked, txn, redirected, aborted>>

\* count = cursor.fetchone()["count"] (the count is printed), conn.close(),
\* and the response with the new short_id.
shorten_url_return(p) ==
    /\ pc[p] = "s_counted"
    /\ Return(p, Response("shorten", 200, short_id[p], url_data[p], "", <<>>))
    /\ UNCHANGED <<urls, seq, requests, now, leaked, txn, redirected, aborted>>

\* ------------------------------------------------------------------ GET /all

\* get_all_urls: cursor.execute(SELECT * FROM urls ORDER BY created_at
\* DESC); of an empty table the statement is finished and the answer is the
\* empty list.
get_all_urls(p) ==
    /\ Receive(p)
    /\ IF ReadBlocked
       THEN Return(p, ServerError("all", None, None))
       ELSE IF urls = {}
       THEN Return(p, Response("all", 200, None, None, "", <<>>))
       ELSE /\ Goto(p, "a_fetch")
            /\ UNCHANGED <<url_data, short_id, result>>
    /\ UNCHANGED <<urls, seq, now, leaked, txn, redirected, aborted>>

\* urls = cursor.fetchall(), conn.close(), and the list of every column of
\* every row.
get_all_urls_fetch(p) ==
    /\ pc[p] = "a_fetch"
    /\ Return(p, Response("all", 200, None, None, "", OrderByCreatedAtDesc(urls)))
    /\ UNCHANGED <<urls, seq, requests, now, leaked, txn, redirected, aborted>>

\* ------------------------------------------------------------------ GET /stats/{short_id}

\* The dict get_stats returns for a row.
StatsOf(r) ==
    [short_id |-> r.short_id, full_url |-> r.full_url,
     created_at |-> r.created_at, clicks |-> r.clicks]

\* get_stats: cursor.execute(SELECT * FROM urls WHERE short_id = ?); with
\* no row found, fetchone() is None, conn.close() and the 404.
get_stats(p, c) ==
    /\ Receive(p)
    /\ IF ReadBlocked
       THEN Return(p, ServerError("stats", c, None))
       ELSE IF SelectByShortId(urls, c) = {}
       THEN Return(p, NotFound("stats", c))
       ELSE /\ Goto(p, "g_fetch")
            /\ short_id' = [short_id EXCEPT ![p] = c]
            /\ UNCHANGED <<url_data, result>>
    /\ UNCHANGED <<urls, seq, now, leaked, txn, redirected, aborted>>

\* result = cursor.fetchone(), conn.close(), and the row's fields.
get_stats_fetch(p) ==
    /\ pc[p] = "g_fetch"
    /\ LET row == fetchone(SelectByShortId(urls, short_id[p]))
       IN Return(p, Response("stats", 200, short_id[p], row.full_url, "",
                             <<StatsOf(row)>>))
    /\ UNCHANGED <<urls, seq, requests, now, leaked, txn, redirected, aborted>>

\* ------------------------------------------------------------------ DELETE /delete/{short_id}

\* delete_url, the lookup: cursor.execute(SELECT * FROM urls WHERE
\* short_id = ?); with no row found, fetchone() is None, conn.close() and
\* the 404.
delete_url_select(p, c) ==
    /\ Receive(p)
    /\ IF ReadBlocked
       THEN Return(p, ServerError("delete", c, None))
       ELSE IF SelectByShortId(urls, c) = {}
       THEN Return(p, NotFound("delete", c))
       ELSE /\ Goto(p, "d_fetch")
            /\ short_id' = [short_id EXCEPT ![p] = c]
            /\ UNCHANGED <<url_data, result>>
    /\ UNCHANGED <<urls, seq, now, leaked, txn, redirected, aborted>>

\* url = cursor.fetchone(): the row found.
delete_url_fetch(p) ==
    /\ pc[p] = "d_fetch"
    /\ Goto(p, "d_delete")
    /\ UNCHANGED <<urls, seq, url_data, short_id, result, requests, now, leaked, txn,
                   redirected, aborted>>

\* cursor.execute(DELETE FROM urls WHERE short_id = ?).  While another
\* connection holds the write lock the DELETE raises OperationalError,
\* which nothing catches.
delete_url_delete(p) ==
    /\ pc[p] = "d_delete"
    /\ IF Locked
       THEN /\ Return(p, ServerError("delete", short_id[p], None))
            /\ UNCHANGED txn
       ELSE /\ txn' = <<DeleteRows(urls, short_id[p])>>
            /\ Goto(p, "d_commit")
            /\ UNCHANGED <<url_data, short_id, result>>
    /\ UNCHANGED <<urls, seq, requests, now, leaked, redirected, aborted>>

\* conn.commit() of the DELETE is called.
delete_url_commit(p) ==
    /\ pc[p] = "d_commit"
    /\ Commit(p, "d_committing", "d_count")
    /\ UNCHANGED <<seq, requests, now, redirected, aborted>>

\* conn.commit() of the DELETE returns from its wait, or raises.
delete_url_committed(p) ==
    /\ pc[p] = "d_committing"
    /\ Committed(p, "delete", "d_count")
    /\ UNCHANGED <<seq, requests, now, redirected, aborted>>

\* cursor.execute(SELECT COUNT(*) as count FROM urls): one row, always.
delete_url_count(p) ==
    /\ pc[p] = "d_count"
    /\ IF ReadBlocked
       THEN Return(p, ServerError("delete", short_id[p], None))
       ELSE /\ Goto(p, "d_counted")
            /\ UNCHANGED <<url_data, short_id, result>>
    /\ UNCHANGED <<urls, seq, requests, now, leaked, txn, redirected, aborted>>

\* count = cursor.fetchone()["count"] (the count is printed), conn.close(),
\* and the response.
delete_url_return(p) ==
    /\ pc[p] = "d_counted"
    /\ Return(p, Response("delete", 200, short_id[p], None,
                          "URL deleted successfully", <<>>))
    /\ UNCHANGED <<urls, seq, requests, now, leaked, txn, redirected, aborted>>

\* ------------------------------------------------------------------ GET /{short_id}

\* redirect_to_url, the lookup: cursor.execute(SELECT full_url FROM urls
\* WHERE short_id = ?); with no row found, fetchone() is None, conn.close()
\* and the 404.
redirect_to_url_select(p, c) ==
    /\ Receive(p)
    /\ IF ReadBlocked
       THEN Return(p, ServerError("redirect", c, None))
       ELSE IF SelectByShortId(urls, c) = {}
       THEN Return(p, NotFound("redirect", c))
       ELSE /\ Goto(p, "r_fetch")
            /\ short_id' = [short_id EXCEPT ![p] = c]
            /\ UNCHANGED <<url_data, result>>
    /\ UNCHANGED <<urls, seq, now, leaked, txn, redirected, aborted>>

\* result = cursor.fetchone(): the row found.
redirect_to_url_fetch(p) ==
    /\ pc[p] = "r_fetch"
    /\ Goto(p, "r_update")
    /\ result' = [result EXCEPT ![p] =
                     fetchone(SelectByShortId(urls, short_id[p])).full_url]
    /\ UNCHANGED <<urls, seq, url_data, short_id, requests, now, leaked, txn,
                   redirected, aborted>>

\* cursor.execute(UPDATE urls SET clicks = clicks + 1 WHERE short_id = ?).
\* While another connection holds the write lock the UPDATE raises
\* OperationalError, which nothing catches.
redirect_to_url_update(p) ==
    /\ pc[p] = "r_update"
    /\ IF Locked
       THEN /\ Return(p, ServerError("redirect", short_id[p], result[p]))
            /\ UNCHANGED txn
       ELSE /\ txn' = <<UpdateClicks(urls, short_id[p])>>
            /\ Goto(p, "r_commit")
            /\ UNCHANGED <<url_data, short_id, result>>
    /\ UNCHANGED <<urls, seq, requests, now, leaked, redirected, aborted>>

\* conn.commit() of the UPDATE is called.
redirect_to_url_commit(p) ==
    /\ pc[p] = "r_commit"
    /\ Commit(p, "r_committing", "r_clicks")
    /\ UNCHANGED <<seq, requests, now, redirected, aborted>>

\* conn.commit() of the UPDATE returns from its wait, or raises.
redirect_to_url_committed(p) ==
    /\ pc[p] = "r_committing"
    /\ Committed(p, "redirect", "r_clicks")
    /\ UNCHANGED <<seq, requests, now, redirected, aborted>>

\* cursor.execute(SELECT clicks FROM urls WHERE short_id = ?).  With no row
\* left the statement is finished, fetchone() is None and the subscript
\* ["clicks"] raises TypeError, which nothing catches.
redirect_to_url_clicks(p) ==
    /\ pc[p] = "r_clicks"
    /\ IF ReadBlocked \/ SelectByShortId(urls, short_id[p]) = {}
       THEN /\ Return(p, ServerError("redirect", short_id[p], result[p]))
            /\ aborted' = TRUE
       ELSE /\ Goto(p, "r_fetched")
            /\ UNCHANGED <<url_data, short_id, result, aborted>>
    /\ UNCHANGED <<urls, seq, requests, now, leaked, txn, redirected>>

\* clicks = cursor.fetchone()["clicks"] (the count is printed),
\* conn.close(), and RedirectResponse(url=result["full_url"]).
redirect_to_url_return(p) ==
    /\ pc[p] = "r_fetched"
    /\ Return(p, Response("redirect", 307, short_id[p], result[p], "", <<>>))
    /\ redirected' = [redirected EXCEPT ![short_id[p]] = @ + 1]
    /\ UNCHANGED <<urls, seq, requests, now, leaked, txn, aborted>>

\* ------------------------------------------------------------------ specifications

\* Requests handled concurrently by the worker threads: a step is one call
\* of one worker's handler, a tick of the clock or a run of the garbage
\* collector.
Next ==
    \/ tick
    \/ gc_collect
    \/ \E p \in Procs :
        \/ \E u \in Urls : shorten_url_select(p, u)
        \/ shorten_url_found(p)
        \/ \E c \in Codes : shorten_url_generate(p, c)
        \/ shorten_url_probed(p)
        \/ shorten_url_insert(p)
        \/ shorten_url_commit(p)
        \/ shorten_url_committed(p)
        \/ shorten_url_count(p)
        \/ shorten_url_return(p)
        \/ get_all_urls(p)
        \/ get_all_urls_fetch(p)
        \/ \E c \in Codes : get_stats(p, c)
        \/ get_stats_fetch(p)
        \/ \E c \in Codes : delete_url_select(p, c)
        \/ delete_url_fetch(p)
        \/ delete_url_delete(p)
        \/ delete_url_commit(p)
        \/ delete_url_committed(p)
        \/ delete_url_count(p)
        \/ delete_url_return(p)
        \/ \E c \in Codes : redirect_to_url_select(p, c)
        \/ redirect_to_url_fetch(p)
        \/ redirect_to_url_update(p)
        \/ redirect_to_url_commit(p)
        \/ redirect_to_url_committed(p)
        \/ redirect_to_url_clicks(p)
        \/ redirect_to_url_return(p)

Spec == Init /\ [][Next]_vars

\* Requests handled one after the other: a step is taken by the one worker
\* whose handler is under way, or by any worker when none is.  No call
\* meets a lock of another connection, so no commit waits, no connection
\* is left unclosed with a lock and the garbage collector has none to
\* release.
AllIdle == \A q \in Procs : pc[q] = "idle"

Undisturbed(p) == \A q \in Procs \ {p} : pc[q] = "idle"

NextSeq ==
    \/ tick
    \/ \E p \in Procs :
        \/ Undisturbed(p) /\ \E u \in Urls : shorten_url_select(p, u)
        \/ Undisturbed(p) /\ shorten_url_found(p)
        \/ Undisturbed(p) /\ \E c \in Codes : shorten_url_generate(p, c)
        \/ Undisturbed(p) /\ shorten_url_probed(p)
        \/ Undisturbed(p) /\ shorten_url_insert(p)
        \/ Undisturbed(p) /\ shorten_url_commit(p)
        \/ Undisturbed(p) /\ shorten_url_count(p)
        \/ Undisturbed(p) /\ shorten_url_return(p)
        \/ Undisturbed(p) /\ get_all_urls(p)
        \/ Undisturbed(p) /\ get_all_urls_fetch(p)
        \/ Undisturbed(p) /\ \E c \in Codes : get_stats(p, c)
        \/ Undisturbed(p) /\ get_stats_fetch(p)
        \/ Undisturbed(p) /\ \E c \in Codes : delete_url_select(p, c)
        \/ Undisturbed(p) /\ delete_url_fetch(p)
        \/ Undisturbed(p) /\ delete_url_delete(p)
        \/ Undisturbed(p) /\ delete_url_commit(p)
        \/ Undisturbed(p) /\ delete_url_count(p)
        \/ Undisturbed(p) /\ delete_url_return(p)
        \/ Undisturbed(p) /\ \E c \in Codes : redirect_to_url_select(p, c)
        \/ Undisturbed(p) /\ redirect_to_url_fetch(p)
        \/ Undisturbed(p) /\ redirect_to_url_update(p)
        \/ Undisturbed(p) /\ redirect_to_url_commit(p)
        \/ Undisturbed(p) /\ redirect_to_url_clicks(p)
        \/ Undisturbed(p) /\ redirect_to_url_return(p)

SpecSeq == Init /\ [][NextSeq]_vars

\* One after the other, with the worker of a shorten request running on and
\* its random draws fair: the handler under way (one at most) takes its next
\* step, and a code is not passed over for ever by a loop that goes round
\* for ever.
SpecSeqFair ==
    /\ Init /\ [][NextSeq]_vars
    /\ WF_vars(\E p \in Procs : \/ shorten_url_probed(p)
                               \/ shorten_url_insert(p)
                               \/ shorten_url_commit(p)
                               \/ shorten_url_count(p)
                               \/ shorten_url_return(p))
    /\ \A c \in Codes : SF_vars(\E p \in Procs : shorten_url_generate(p, c))

TypeOK ==
    /\ \A r \in urls : /\ r.id \in 1..seq
                       /\ r.short_id \in Codes
                       /\ r.full_url \in Urls
                       /\ r.created_at \in 0..MaxTime
                       /\ r.clicks \in 0..MaxRequests
    /\ seq \in 0..MaxRequests
    /\ requests \in 0..MaxRequests
    /\ now \in 0..MaxTime
    /\ leaked \in {"no", "reserved", "pending"}
    /\ txn # NoTxn <=> \E p \in Procs :
                          pc[p] \in {"s_commit", "d_commit", "r_commit"} \cup Waiting
    /\ ~(leaked # "no" /\ txn # NoTxn)
    /\ redirected \in [Codes -> 0..MaxRequests]
    /\ aborted \in BOOLEAN
    /\ pc \in [Procs -> {"idle", "s_generate", "s_insert", "s_commit", "s_count",
                         "d_delete", "d_commit", "d_count",
                         "r_update", "r_commit", "r_clicks"}
                        \cup Fetching \cup Waiting]

\* ------------------------------------------------------------------ properties

\* The table has a row of short_id c.
HasRow(tbl, c) == SelectByShortId(tbl, c) # {}

\* Every code of the code space has a row.
Full == \A c \in Codes : HasRow(urls, c)

\* The workers whose redirect request for code c has committed its UPDATE
\* and is not yet answered.
Counted(c) == {p \in Procs : pc[p] \in {"r_clicks", "r_fetched"} /\ short_id[p] = c}

\* C1: in every reachable state, whatever the interleaving of the requests,
\* no two rows of the table have the same short_id.
C1_UniqueShortId ==
    \A r1 \in urls : \A r2 \in urls : r1.short_id = r2.short_id => r1 = r2

\* A shorten request whose INSERT met a row of the same short_id, committed
\* by the other request since the probe, and was turned away; its
\* connection still holds the write lock.
C1_Witness ==
    /\ response.op = "shorten"
    /\ response.status = 500
    /\ HasRow(urls, response.short_id)
    /\ leaked = "reserved"
    /\ requests = 2

\* C2: a shorten request for URL u that directly follows a successful
\* shorten request for u finds the row of the short_id just answered,
\* answers with that same short_id, and leaves the table as it is.
C2_ShortenTwice ==
    [][\A p \in Procs :
          /\ \A u \in Urls :
                (/\ response.op = "shorten"
                 /\ response.status = 200
                 /\ response.full_url = u
                 /\ shorten_url_select(p, u))
                => (/\ pc'[p] = "s_found"
                    /\ url_data'[p] = u
                    /\ fetchone(SelectByFullUrl(urls, u)).short_id = response.short_id
                    /\ urls' = urls)
          /\ shorten_url_found(p)
             => (/\ response'.op = "shorten"
                 /\ response'.status = 200
                 /\ response'.full_url = url_data[p]
                 /\ response'.short_id =
                        fetchone(SelectByFullUrl(urls, url_data[p])).short_id
                 /\ urls' = urls)]_vars

\* The second of two shorten requests for one URL has been answered with
\* the existing row's short_id.
C2_Witness ==
    /\ response.op = "shorten"
    /\ response.message = "URL already exists"
    /\ \E r \in urls : r.short_id = response.short_id /\ r.full_url = response.full_url
    /\ Cardinality(urls) = 1

\* C3: an INSERT (the write lock free) of a short_id that a concurrent
\* request has inserted since the probe leaves the table as it is, and the
\* request goes back to the generation step (to complete with a fresh code).
C3_RetryOnConflict ==
    [][\A p \in Procs :
          (shorten_url_insert(p) /\ ~Locked /\ HasRow(urls, short_id[p]))
          => (urls' = urls /\ pc'[p] = "s_generate")]_vars

\* C4: with requests handled one after the other, a redirect request for a
\* code with no row answers 404 and changes no row; for a code with a row
\* it raises that row's clicks by exactly 1, changes no other row, and
\* answers with a redirect to that row's full_url.
C4_Redirect ==
    [][\A p \in Procs :
          /\ \A c \in Codes :
                redirect_to_url_select(p, c)
                => /\ urls' = urls
                   /\ ~HasRow(urls, c) => response' = NotFound("redirect", c)
                   /\ HasRow(urls, c) => (pc'[p] = "r_fetch" /\ response' = NoResponse)
          /\ redirect_to_url_fetch(p)
             => (urls' = urls /\ pc'[p] = "r_update")
          /\ redirect_to_url_update(p)
             => (urls' = urls /\ pc'[p] = "r_commit")
          /\ redirect_to_url_commit(p)
             => /\ \E r \in urls :
                      /\ r.short_id = short_id[p]
                      /\ r.full_url = result[p]
                      /\ urls' = (urls \ {r}) \cup {[r EXCEPT !.clicks = r.clicks + 1]}
                /\ pc'[p] = "r_clicks"
          /\ redirect_to_url_clicks(p)
             => (urls' = urls /\ pc'[p] = "r_fetched")
          /\ redirect_to_url_return(p)
             => /\ urls' = urls
                /\ response'.op = "redirect"
                /\ response'.status = 307
                /\ \E r \in urls : /\ r.short_id = short_id[p]
                                   /\ r.full_url = response'.full_url]_vars

\* A redirect request has been answered with a redirect to the row's
\* full_url, and the row counts the click.
C4_Witness ==
    /\ response.op = "redirect"
    /\ response.status = 307
    /\ \E r \in urls : /\ r.short_id = response.short_id
                       /\ r.full_url = response.full_url
                       /\ r.clicks = 1

\* C5: no click is lost under concurrent redirects.  A commit of a redirect
\* request's UPDATE that goes through, at once or after a wait (one that
\* times out ends its request with a 500, not a redirect), adds exactly 1
\* to the clicks the row has at that moment.  And while no row was ever deleted, the clicks of a row are
\* at least the redirect responses sent for its code plus the requests that
\* have committed and are not yet answered; they are exactly that number
\* unless a request ended with a 500 after its commit.
C5_NoLostClick ==
    /\ [][\A p \in Procs :
             ((redirect_to_url_commit(p) \/ redirect_to_url_committed(p))
              /\ pc'[p] = "r_clicks")
             => \A r \in urls :
                   r.short_id = short_id[p]
                   => [r EXCEPT !.clicks = r.clicks + 1] \in urls']_vars
    /\ [](seq = Cardinality(urls)
          => \A r \in urls :
                LET n == redirected[r.short_id] + Cardinality(Counted(r.short_id))
                IN /\ r.clicks >= n
                   /\ ~aborted => r.clicks = n)

\* Two redirect requests for one code were under way together, both have
\* committed their UPDATE, and the row counts two clicks.
C5_Witness ==
    \E p \in Procs : \E q \in Procs \ {p} : \E r \in urls :
        /\ p \in Counted(r.short_id) /\ q \in Counted(r.short_id)
        /\ r.clicks = 2

\* C6: with requests handled one after the other, a delete request for a
\* code with no row answers 404 and changes nothing; for a code with a row
\* its committed DELETE removes exactly that row and it then answers 200
\* with the row still gone; and while a code has no row, a redirect or
\* stats request for it answers 404, which only a shorten request's INSERT
\* of that code ends.
C6_Delete ==
    [][/\ \A p \in Procs : \A c \in Codes :
             delete_url_select(p, c)
             => /\ urls' = urls
                /\ ~HasRow(urls, c) => response' = NotFound("delete", c)
                /\ HasRow(urls, c) => (pc'[p] = "d_fetch" /\ response' = NoResponse)
       /\ \A p \in Procs :
             delete_url_fetch(p)
             => (urls' = urls /\ pc'[p] = "d_delete")
       /\ \A p \in Procs :
             delete_url_delete(p)
             => (urls' = urls /\ pc'[p] = "d_commit")
       /\ \A p \in Procs :
             delete_url_commit(p)
             => /\ \E r \in urls : r.short_id = short_id[p] /\ urls' = urls \ {r}
                /\ ~HasRow(urls', short_id[p])
                /\ pc'[p] = "d_count"
       /\ \A p \in Procs :
             delete_url_count(p)
             => (urls' = urls /\ pc'[p] = "d_counted")
       /\ \A p \in Procs :
             delete_url_return(p)
             => /\ urls' = urls
                /\ ~HasRow(urls', short_id[p])
                /\ response'.op = "delete"
                /\ response'.status = 200
                /\ response'.short_id = short_id[p]
       /\ \A p \in Procs : \A c \in Codes :
             (~HasRow(urls, c) /\ (redirect_to_url_select(p, c) \/ get_stats(p, c)))
             => (response'.status = 404 /\ response'.short_id = c)
       /\ \A c \in Codes :
             (~HasRow(urls, c) /\ HasRow(urls', c))
             => \E p \in Procs : shorten_url_commit(p) /\ short_id[p] = c]_vars

\* A delete request has been answered and the row it named is gone.
C6_Witness ==
    /\ response.op = "delete"
    /\ response.status = 200
    /\ ~HasRow(urls, response.short_id)
    /\ seq >= 1

\* C7: a row is created with clicks 0 and only by a shorten request's
\* committed INSERT; an existing row is left exactly as it is by every step
\* (a commit that waits or times out included) except the commit of the
\* UPDATE of a redirect request for its code, which adds 1 to its clicks
\* and changes no other column, and the commit of the DELETE of a delete
\* request for its code, which removes it.
C7_Frame ==
    [][/\ \A r \in urls :
             \/ r \in urls'
             \/ \E p \in Procs :
                   /\ redirect_to_url_commit(p) \/ redirect_to_url_committed(p)
                   /\ short_id[p] = r.short_id
                   /\ \A x \in urls' :
                         x.id = r.id => x = [r EXCEPT !.clicks = r.clicks + 1]
                   /\ \E x \in urls' : x.id = r.id
             \/ \E p \in Procs :
                   /\ delete_url_commit(p) \/ delete_url_committed(p)
                   /\ short_id[p] = r.short_id
                   /\ \A x \in urls' : x.id # r.id
       /\ \A x \in urls' :
             (\A r \in urls : r.id # x.id)
             => /\ x.clicks = 0
                /\ \E p \in Procs :
                      /\ shorten_url_commit(p) \/ shorten_url_committed(p)
                      /\ short_id[p] = x.short_id]_vars

\* A row that has counted a click has been read by a list or stats request.
C7_Witness ==
    /\ response.op \in {"all", "stats"}
    /\ response.status = 200
    /\ \E r \in urls : r.clicks >= 1

\* C8: two shorten requests for one URL that has no row can both pass the
\* reuse check, and no constraint of the store turns an INSERT away for its
\* full_url: an INSERT that the write lock does not stop, with a short_id
\* no row has, goes on to its commit even when a row of the same full_url
\* exists; the commit, unless a read lock holds it up, adds the row;
\* the request that gets as far as its answer answers with that short_id;
\* and a redirect request that has found the row of a short_id takes that
\* row's full_url for its target.
C8_DuplicateUrl ==
    [][\A p \in Procs :
          /\ \A u \in Urls :
                (shorten_url_select(p, u) /\ ~ReadBlocked /\ SelectByFullUrl(urls, u) = {})
                => pc'[p] = "s_generate"
          /\ (shorten_url_insert(p) /\ ~Locked /\ ~HasRow(urls, short_id[p]))
             => pc'[p] = "s_commit"
          /\ ((shorten_url_commit(p) \/ shorten_url_committed(p)) /\ ~ReadLocked(p))
             => /\ \E x \in urls' : /\ x \notin urls
                                    /\ x.short_id = short_id[p]
                                    /\ x.full_url = url_data[p]
                                    /\ urls' = urls \cup {x}
                /\ pc'[p] = "s_count"
          /\ shorten_url_return(p)
             => /\ urls' = urls
                /\ response'.status = 200
                /\ response'.short_id = short_id[p]
                /\ response'.full_url = url_data[p]
          /\ redirect_to_url_fetch(p)
             => \A r \in urls : r.short_id = short_id[p] => result'[p] = r.full_url]_vars

\* Two rows of different short_id and the same full_url, made by two
\* shorten requests under way together, and a redirect request has been
\* answered with a redirect to that URL.
C8_Witness ==
    \E r1 \in urls : \E r2 \in urls :
        /\ r1.short_id # r2.short_id
        /\ r1.full_url = r2.full_url
        /\ response.op = "redirect"
        /\ response.status = 307
        /\ response.full_url = r1.full_url

\* C9: a round of the generation loop leaves the loop exactly when the
\* drawn code has no row, whatever the number of rounds before it; while
\* every code has a row the request stays in the loop; and with fair draws a
\* request in the loop while some code has no row inserts its row and is
\* answered with its short_id.
C9_RetryLoop ==
    /\ [][\A p \in Procs :
             /\ \A c \in Codes :
                   shorten_url_generate(p, c)
                   => /\ urls' = urls
                      /\ pc'[p] = IF HasRow(urls, c) THEN "s_probed" ELSE "s_insert"
             /\ shorten_url_probed(p) => (urls' = urls /\ pc'[p] = "s_generate")
             /\ (pc[p] \in {"s_generate", "s_probed"} /\ Full)
                => (pc'[p] \in {"s_generate", "s_probed"} /\ Full')]_vars
    /\ \A p \in Procs :
          (pc[p] = "s_generate" /\ ~Full)
          ~> (/\ pc[p] = "idle"
              /\ response.op = "shorten"
              /\ response.status = 200
              /\ \E r \in urls : r.id = seq /\ r.short_id = response.short_id)

\* A shorten request in the generation loop has drawn a code that has a
\* row, and so has every other code.
C9_Witness ==
    \E p \in Procs : pc[p] = "s_probed" /\ short_id[p] # None /\ Full

\* C10: every redirect request ends with 404 or with a redirect.
C10_RedirectOutcomes ==
    response.op = "redirect" => response.status \in {404, 307}

====
